---- MODULE Spec2Model ----
(***************************************************************************)
(* Model of run-quality-gates.py: a script that runs four npm commands     *)
(* through WSL one after the other (install, build, test, lint), prints    *)
(* progress, and stops at the first failure.                               *)
(*                                                                         *)
(* The console is modelled as the sequence of arguments given to print();  *)
(* each print() call writes its argument followed by a newline.  The two   *)
(* non-ASCII glyphs of the source are written (U+2713) and (U+2728).       *)
(***************************************************************************)
EXTENDS Integers, Sequences, FiniteSets, TLC

VARIABLES pc, step, output, result, history, exitCode

vars == <<pc, step, output, result, history, exitCode>>

----------------------------------------------------------------------------
(* Bounds of the environment: what an external command may produce.        *)

MaxTextLen == 1
MaxExitCode == 2

\* Captured text of a stream: a sequence of characters, <<>> is the empty string.
Texts == UNION {[1..n -> {"c"}] : n \in 0..MaxTextLen}

\* Exit statuses an external command may return.
ExitCodes == 0..MaxExitCode

\* str(e) of the exceptions subprocess.run raises when the command cannot be run.
ExcDescs == {"[WinError 2] The system cannot find the file specified",
             "[WinError 5] Access is denied"}

----------------------------------------------------------------------------
(* The four steps, in source order.                                        *)

Prefix == "cd /home/skynet/freshtrack-pro-local/fresh-staged && "

\* faulty variant: the build and test blocks in the wrong order
StepsSwapped ==
  << [banner  |-> "Step 1: Installing dependencies...",
      command |-> "npm install",
      success |-> "(U+2713) Dependencies installed successfully"],
     [banner  |-> "Step 3: Running test suite...",
      command |-> "npm test",
      success |-> "(U+2713) All tests passed"],
     [banner  |-> "Step 2: Running build process...",
      command |-> "npm run build",
      success |-> "(U+2713) Build completed successfully"],
     [banner  |-> "Step 4: Checking for linting issues...",
      command |-> "npm run lint",
      success |-> "(U+2713) No linting issues found"] >>

\* faulty variant: a fifth block that runs the tests a second time
StepsRepeated ==
  << [banner  |-> "Step 1: Installing dependencies...",
      command |-> "npm install",
      success |-> "(U+2713) Dependencies installed successfully"],
     [banner  |-> "Step 2: Running build process...",
      command |-> "npm run build",
      success |-> "(U+2713) Build completed successfully"],
     [banner  |-> "Step 3: Running test suite...",
      command |-> "npm test",
      success |-> "(U+2713) All tests passed"],
     [banner  |-> "Step 4: Checking for linting issues...",
      command |-> "npm run lint",
      success |-> "(U+2713) No linting issues found"],
     [banner  |-> "Step 5: Running test suite again...",
      command |-> "npm test",
      success |-> "(U+2713) All tests passed again"] >>

Steps ==
  << [banner  |-> "Step 1: Installing dependencies...",
      command |-> "npm install",
      success |-> "(U+2713) Dependencies installed successfully"],
     [banner  |-> "Step 2: Running build process...",
      command |-> "npm run build",
      success |-> "(U+2713) Build completed successfully"],
     [banner  |-> "Step 3: Running test suite...",
      command |-> "npm test",
      success |-> "(U+2713) All tests passed"],
     [banner  |-> "Step 4: Checking for linting issues...",
      command |-> "npm run lint",
      success |-> "(U+2713) No linting issues found"] >>

----------------------------------------------------------------------------
(* print() arguments.                                                      *)

\* print("literal") and print() (the empty literal)
Lit(s) == [kind |-> "lit", s |-> s, text |-> <<>>, code |-> 0]

\* print(result.stdout), print(e.stdout), print(e.stderr)
Stream(t) == [kind |-> "stream", s |-> "", text |-> t, code |-> 0]

\* print(f"Error: Command failed with exit code {e.returncode}")
FailedLine(rc) ==
  [kind |-> "failed", s |-> "Error: Command failed with exit code ",
   text |-> <<>>, code |-> rc]

\* print(f"Error: {e}")
ExceptionLine(desc) == [kind |-> "exception", s |-> desc, text |-> <<>>, code |-> 0]

Header == << Lit("Running quality gates for freshtrack-pro project..."), Lit("") >>

\* faulty variant: the success line printed before the captured stdout
SuccessLinesBeforeStdout(s, stdout) ==
  << Lit(s.success) >>
    \o (IF stdout # <<>> THEN << Stream(stdout) >> ELSE << >>)
    \o << Lit("") >>

\* faulty variant: the success line indented under "if result.stdout:"
SuccessLinesOnlyWithStdout(s, stdout) ==
  (IF stdout # <<>> THEN << Stream(stdout), Lit(s.success) >> ELSE << >>)
    \o << Lit("") >>

\* if result.stdout: print(result.stdout); print(success); print()
SuccessLines(s, stdout) ==
  (IF stdout # <<>> THEN << Stream(stdout) >> ELSE << >>)
    \o << Lit(s.success), Lit("") >>

\* faulty variant: the closing message left out
FinalLinesMissing == << >>

FinalLines == << Lit("(U+2728) All quality gates passed! (U+2728)") >>

\* faulty variant: the handler prints stdout only
CalledProcessErrorLinesNoStderr(e) ==
  << FailedLine(e.returncode) >>
    \o (IF e.stdout # <<>> THEN << Lit("\nOutput:"), Stream(e.stdout) >> ELSE << >>)

\* faulty variant: the handler prints the streams first and the summary last
CalledProcessErrorLinesStreamsFirst(e) ==
  (IF e.stdout # <<>> THEN << Lit("\nOutput:"), Stream(e.stdout) >> ELSE << >>)
    \o (IF e.stderr # <<>> THEN << Lit("\nError:"), Stream(e.stderr) >> ELSE << >>)
    \o << FailedLine(e.returncode) >>

\* body of "except subprocess.CalledProcessError as e", up to sys.exit
CalledProcessErrorLines(e) ==
  << FailedLine(e.returncode) >>
    \o (IF e.stdout # <<>> THEN << Lit("\nOutput:"), Stream(e.stdout) >> ELSE << >>)
    \o (IF e.stderr # <<>> THEN << Lit("\nError:"), Stream(e.stderr) >> ELSE << >>)

\* faulty variant: the generic handler reports like the command-failure handler
ExceptionLinesAsCommandFailure(e) == << FailedLine(e.returncode) >>

\* body of "except Exception as e", up to sys.exit
ExceptionLines(e) == << ExceptionLine(e.desc) >>

\* faulty variant: the handler forwards the command's exit code
CommandFailureExitForwarded(e) == e.returncode

\* sys.exit(1) of the CalledProcessError handler
CommandFailureExit(e) == 1

\* sys.exit(1) of the generic handler
InvocationErrorExit(e) == 1

\* falling off the end of the script
SuccessExit == 0

\* faulty variant: check=False, a non-zero status is returned like any other
CheckedRunNoCheck(rc) == "return"

\* subprocess.run(..., check=True): a non-zero status raises CalledProcessError
CheckedRun(rc) == IF rc # 0 THEN "raise" ELSE "return"

NoResult == [returncode |-> 0, stdout |-> <<>>, stderr |-> <<>>, desc |-> ""]

----------------------------------------------------------------------------
Init ==
  /\ pc = "start"
  /\ step = 1
  /\ output = Header
  /\ result = NoResult
  /\ history = << >>
  /\ exitCode = -1

\* print("Step N: ...") and the call of subprocess.run, which blocks
StartStep ==
  /\ pc = "start"
  /\ output' = Append(output, Lit(Steps[step].banner))
  /\ history' = Append(history,
                  [n |-> step, cmd |-> Prefix \o Steps[step].command,
                   status |-> "inflight", res |-> NoResult])
  /\ pc' = "waiting"
  /\ UNCHANGED <<step, result, exitCode>>

\* the external command terminates with status rc and the captured streams;
\* subprocess.run either returns, and the rest of the step's block runs up to
\* the next step, or raises CalledProcessError
CommandExits(rc, out, err) ==
  /\ pc = "waiting"
  /\ LET r == [returncode |-> rc, stdout |-> out, stderr |-> err, desc |-> ""]
     IN /\ result' = r
        /\ history' = [history EXCEPT ![Len(history)] =
                         [@ EXCEPT !.status = "exited", !.res = r]]
  /\ IF CheckedRun(rc) = "return"
       THEN /\ output' = output \o SuccessLines(Steps[step], out)
            /\ IF step < Len(Steps)
                 THEN step' = step + 1 /\ pc' = "start"
                 ELSE step' = step /\ pc' = "final"
       ELSE /\ pc' = "handleCPE"
            /\ UNCHANGED <<step, output>>
  /\ UNCHANGED exitCode

\* subprocess.run raises something other than CalledProcessError
CommandCannotRun(desc) ==
  /\ pc = "waiting"
  /\ LET r == [NoResult EXCEPT !.desc = desc]
     IN /\ result' = r
        /\ history' = [history EXCEPT ![Len(history)] =
                         [@ EXCEPT !.status = "raised", !.res = r]]
  /\ pc' = "handleExc"
  /\ UNCHANGED <<step, output, exitCode>>

\* the external command never returns: no timeout is given to subprocess.run
CommandHangs ==
  /\ pc = "waiting"
  /\ history' = [history EXCEPT ![Len(history)] = [@ EXCEPT !.status = "hung"]]
  /\ pc' = "hung"
  /\ UNCHANGED <<step, output, result, exitCode>>

\* the closing message; the script ends, the interpreter exits with 0
Finish ==
  /\ pc = "final"
  /\ output' = output \o FinalLines
  /\ exitCode' = SuccessExit
  /\ pc' = "exited"
  /\ UNCHANGED <<step, result, history>>

HandleCalledProcessError ==
  /\ pc = "handleCPE"
  /\ output' = output \o CalledProcessErrorLines(result)
  /\ exitCode' = CommandFailureExit(result)
  /\ pc' = "exited"
  /\ UNCHANGED <<step, result, history>>

HandleException ==
  /\ pc = "handleExc"
  /\ output' = output \o ExceptionLines(result)
  /\ exitCode' = InvocationErrorExit(result)
  /\ pc' = "exited"
  /\ UNCHANGED <<step, result, history>>

Next ==
  \/ StartStep
  \/ \E rc \in ExitCodes, out \in Texts, err \in Texts : CommandExits(rc, out, err)
  \/ \E desc \in ExcDescs : CommandCannotRun(desc)
  \/ CommandHangs
  \/ Finish
  \/ HandleCalledProcessError
  \/ HandleException

Spec == Init /\ [][Next]_vars

\* The interpreter always takes its next step, and a command that has not
\* hung eventually returns or raises.
LiveSpec == Init /\ [][Next]_vars /\ WF_vars(Next)

----------------------------------------------------------------------------
(* Observations used by the properties.                                    *)

\* the commands dispatched so far, in order
Invoked == [i \in 1..Len(history) |-> history[i].cmd]

ExpectedCommands ==
  << Prefix \o "npm install", Prefix \o "npm run build",
     Prefix \o "npm test", Prefix \o "npm run lint" >>

IsPrefix(s, t) == Len(s) <= Len(t) /\ \A i \in 1..Len(s) : s[i] = t[i]

Succeeded(k) == history[k].status = "exited" /\ history[k].res.returncode = 0
CommandFailed(k) == history[k].status = "exited" /\ history[k].res.returncode # 0
Raised(k) == history[k].status = "raised"

AllSucceeded == Len(history) = 4 /\ \A k \in 1..4 : Succeeded(k)
AnyFailed == \E k \in 1..Len(history) : CommandFailed(k) \/ Raised(k)

Exited == pc = "exited"

IsSuccessLine(l) == l.kind = "lit" /\ \E k \in 1..Len(Steps) : l.s = Steps[k].success
IsFailureLine(l) == l.kind \in {"failed", "exception"}
IsFinalLine(l) == l.kind = "lit" /\ l.s = "(U+2728) All quality gates passed! (U+2728)"
IsBanner(l) == l.kind = "lit" /\ \E k \in 1..Len(Steps) : l.s = Steps[k].banner

Positions(Test(_)) == {i \in 1..Len(output) : Test(output[i])}
PositionsOf(line) == {i \in 1..Len(output) : output[i] = line}

\* where step k's banner is, and the output from there to the next banner
BannerPos(k) == CHOOSE i \in 1..Len(output) : output[i] = Lit(Steps[k].banner)
SegmentEnd(k) == IF k < Len(history) THEN BannerPos(k + 1) - 1 ELSE Len(output)
Segment(k) == SubSeq(output, BannerPos(k), SegmentEnd(k))
AfterBanner(k) == SubSeq(output, BannerPos(k) + 1, SegmentEnd(k))

----------------------------------------------------------------------------
\* C1: the commands invoked so far are always a prefix of (npm install,
\* npm run build, npm test, npm run lint); every command but the last one
\* invoked has completed, so a step starts only after its predecessors have
\* completed, at most one command is in flight, and none is invoked twice.
C1_InvokedIsPrefix ==
  /\ IsPrefix(Invoked, ExpectedCommands)
  /\ \A k \in 1..Len(history) :
       /\ history[k].n = k
       /\ k < Len(history) => history[k].status = "exited"
  /\ Cardinality({k \in 1..Len(history) :
                    history[k].status \in {"inflight", "hung"}}) <= 1
  /\ \A i, j \in 1..Len(history) : i # j => Invoked[i] # Invoked[j]

\* all four commands were invoked, and the last one failed
C1_Witness ==
  /\ Exited
  /\ Invoked = ExpectedCommands
  /\ CommandFailed(4)

\* C2: once step k has returned a non-zero status no later step is ever
\* invoked, the runner goes to the failure handler, and exits with code 1.
C2_FailFast ==
  \A k \in 1..Len(history) :
    CommandFailed(k) =>
      /\ Len(history) = k
      /\ pc \in {"handleCPE", "exited"}
      /\ Exited => exitCode = 1

\* the build (step 2) returned 2 and the run has exited
C2_Witness ==
  /\ Exited
  /\ Len(history) = 2
  /\ CommandFailed(2)
  /\ history[2].res.returncode = 2

\* C3: when all four steps returned 0 and the run has exited, the exit code
\* is 0, the four success confirmations are in the output in order, and the
\* closing message is printed once, after the fourth confirmation; the
\* closing message is never printed when a step failed, and never twice.
C3_AllPass ==
  /\ (Exited /\ AllSucceeded) =>
       /\ exitCode = 0
       /\ \A k \in 1..4 : Cardinality(PositionsOf(Lit(Steps[k].success))) = 1
       /\ \A k \in 1..3 : \A i \in PositionsOf(Lit(Steps[k].success)) :
             \A j \in PositionsOf(Lit(Steps[k + 1].success)) : i < j
       /\ Cardinality(Positions(IsFinalLine)) = 1
       /\ \A i \in Positions(IsFinalLine) :
             \A j \in PositionsOf(Lit(Steps[4].success)) : j < i
  /\ AnyFailed => Positions(IsFinalLine) = {}
  /\ Cardinality(Positions(IsFinalLine)) <= 1
  /\ Positions(IsFinalLine) # {} => AllSucceeded

\* a run in which all four steps succeeded has exited
C3_Witness == Exited /\ AllSucceeded /\ Positions(IsFinalLine) # {}

\* C4: a run that has exited has exit code 0 or 1: 0 exactly when all four
\* steps succeeded, 1 when a command returned a non-zero code c (and the
\* error line reports c) and 1 when the invocation raised; before the exit
\* no exit code is produced.
C4_ExitCode ==
  /\ Exited =>
       /\ exitCode \in {0, 1}
       /\ exitCode = 0 <=> AllSucceeded
       /\ exitCode = 1 <=> AnyFailed
       /\ \A k \in 1..Len(history) :
            CommandFailed(k) =>
              /\ exitCode = 1
              /\ PositionsOf(FailedLine(history[k].res.returncode)) # {}
              /\ \A i \in Positions(IsFailureLine) :
                   output[i].code = history[k].res.returncode
       /\ \A k \in 1..Len(history) : Raised(k) => exitCode = 1
  /\ ~Exited => exitCode = -1

\* a command returned 2 and the run exited with 1
C4_Witness ==
  /\ Exited
  /\ exitCode = 1
  /\ \E k \in 1..Len(history) : CommandFailed(k) /\ history[k].res.returncode = 2

\* C5: after a command failure has been handled, the output after the
\* failing step's banner holds the "Output:" header directly followed by the
\* captured stdout exactly when stdout is non-empty, and the "Error:" header
\* directly followed by the captured stderr exactly when stderr is non-empty;
\* an empty stream leaves neither header nor content.
C5_StreamsPrinted ==
  \A k \in 1..Len(history) :
    (Exited /\ CommandFailed(k)) =>
      LET tail == AfterBanner(k)
          r == history[k].res
          hdrs(h) == {i \in 1..Len(tail) : tail[i] = Lit(h)}
          streams == {i \in 1..Len(tail) : tail[i].kind = "stream"}
          n(t) == IF t # <<>> THEN 1 ELSE 0
      IN /\ Cardinality(hdrs("\nOutput:")) = n(r.stdout)
         /\ Cardinality(hdrs("\nError:")) = n(r.stderr)
         /\ \A i \in hdrs("\nOutput:") :
              i < Len(tail) /\ tail[i + 1] = Stream(r.stdout)
         /\ \A i \in hdrs("\nError:") :
              i < Len(tail) /\ tail[i + 1] = Stream(r.stderr)
         /\ Cardinality(streams) = n(r.stdout) + n(r.stderr)

\* a failed command with both streams non-empty has been handled
C5_Witness ==
  /\ Exited
  /\ \E k \in 1..Len(history) :
       /\ CommandFailed(k)
       /\ history[k].res.stdout # <<>>
       /\ history[k].res.stderr # <<>>
  /\ PositionsOf(Lit("\nOutput:")) # {}
  /\ PositionsOf(Lit("\nError:")) # {}

\* C6 as stated: every invoked step has its banner followed by a success or
\* a failure line once it is over, and on a failing step the streams and
\* their headers come first and the "Command failed with exit code" line
\* comes after them.
C6_SummaryAfterStreams ==
  \A k \in 1..Len(history) :
    /\ Cardinality(PositionsOf(Lit(Steps[k].banner))) = 1
    /\ (k < Len(history) \/ Exited) =>
         \E i \in 1..Len(AfterBanner(k)) :
           IsSuccessLine(AfterBanner(k)[i]) \/ IsFailureLine(AfterBanner(k)[i])
    /\ (Exited /\ CommandFailed(k)) =>
         LET tail == AfterBanner(k)
         IN \A i, j \in 1..Len(tail) :
              (tail[i].kind = "failed" /\ tail[j].kind # "failed") => j < i

\* C6 (amended): every invoked step has its banner, followed once the step is
\* over by exactly one success or failure line; on a failing step the
\* "Command failed with exit code" line comes first, then the "Output:"
\* header and stdout, then the "Error:" header and stderr.
C6_SummaryBeforeStreams ==
  \A k \in 1..Len(history) :
    /\ Cardinality(PositionsOf(Lit(Steps[k].banner))) = 1
    /\ (k < Len(history) \/ Exited) =>
         LET tail == AfterBanner(k)
         IN Cardinality({i \in 1..Len(tail) :
               IsSuccessLine(tail[i]) \/ IsFailureLine(tail[i])}) = 1
    /\ (Exited /\ CommandFailed(k)) =>
         LET tail == AfterBanner(k)
             r == history[k].res
         IN /\ Len(tail) >= 1
            /\ tail[1] = FailedLine(r.returncode)
            /\ \A i \in 2..Len(tail) :
                 tail[i] \in {Lit("\nOutput:"), Lit("\nError:"),
                              Stream(r.stdout), Stream(r.stderr)}
            /\ \A i, j \in 1..Len(tail) :
                 (tail[i] = Lit("\nOutput:") /\ tail[j] = Lit("\nError:")) => i < j

\* a failed command with both streams non-empty: summary, then the streams
C6_Witness ==
  /\ Exited
  /\ \E k \in 1..Len(history) :
       /\ CommandFailed(k)
       /\ history[k].res.stdout # <<>>
       /\ history[k].res.stderr # <<>>
       /\ Len(AfterBanner(k)) = 5
       /\ AfterBanner(k)[1].kind = "failed"

\* C7: for every step that returned 0, the output from its banner on is
\* exactly the banner, the captured stdout if it is non-empty, the step's
\* success line and a blank line; after that comes the next step's banner
\* or, after the last step, the closing message.
C7_SuccessBlock ==
  \A k \in 1..Len(history) :
    Succeeded(k) =>
      LET seg == Segment(k)
          out == history[k].res.stdout
          expected == << Lit(Steps[k].banner) >>
                        \o (IF out # <<>> THEN << Stream(out) >> ELSE << >>)
                        \o << Lit(Steps[k].success), Lit("") >>
      IN /\ IsPrefix(expected, seg)
         /\ Len(seg) > Len(expected) =>
              /\ k = Len(Steps)
              /\ Len(seg) = Len(expected) + 1
              /\ IsFinalLine(seg[Len(seg)])
         /\ \A i, j \in 1..Len(seg) :
              (seg[i].kind = "stream" /\ IsSuccessLine(seg[j])) => i < j

\* two successful steps, the first with output and the second without
C7_Witness ==
  /\ Len(history) >= 3
  /\ Succeeded(1) /\ history[1].res.stdout # <<>>
  /\ Succeeded(2) /\ history[2].res.stdout = <<>>
  /\ Len(Segment(1)) = 4
  /\ Len(Segment(2)) = 3

\* C8: an invocation error is handled apart from a command failure: after
\* the banner of the step that raised there is the single line
\* "Error: <description>", the output has no "Command failed" line and no
\* "Output:"/"Error:" sections, no later step is invoked and the exit code
\* is 1; a command failure prints no such line and exits with 1 as well.
C8_InvocationError ==
  \A k \in 1..Len(history) :
    /\ Raised(k) =>
         /\ Len(history) = k
         /\ pc \in {"handleExc", "exited"}
         /\ Exited =>
              /\ AfterBanner(k) = << ExceptionLine(history[k].res.desc) >>
              /\ \A i \in 1..Len(output) :
                   /\ output[i].kind # "failed"
                   /\ output[i] # Lit("\nOutput:")
                   /\ output[i] # Lit("\nError:")
              /\ exitCode = 1
    /\ (Exited /\ CommandFailed(k)) =>
         /\ exitCode = 1
         /\ \A i \in 1..Len(output) : output[i].kind # "exception"
         /\ \E i \in 1..Len(output) : output[i].kind = "failed"

\* the third step could not be run and the run has exited
C8_Witness ==
  /\ Exited
  /\ Len(history) = 3
  /\ Raised(3)
  /\ output[Len(output)].kind = "exception"

\* C9: a run in which no command hangs eventually exits, with code 0 or 1;
\* there are never more than four invocations; while a command hangs the
\* runner has not exited, has printed nothing after that step's banner, has
\* invoked no later step, and stays so for ever.
C9_Termination ==
  /\ ([](pc # "hung")) => <>(Exited /\ exitCode \in {0, 1})
  /\ [](Len(history) <= 4)
  /\ [](pc = "hung" =>
          /\ exitCode = -1
          /\ Len(history) = step
          /\ history[Len(history)].status = "hung"
          /\ output[Len(output)] = Lit(Steps[step].banner)
          /\ ~IsSuccessLine(output[Len(output)])
          /\ ~IsFailureLine(output[Len(output)]))
  /\ [][pc = "hung" => UNCHANGED vars]_vars

\* the third command hangs after two successful steps
C9_Witness ==
  /\ pc = "hung"
  /\ Len(history) = 3
  /\ Succeeded(1) /\ Succeeded(2)

====
